---- MODULE Spec2Model ----
(***************************************************************************)
(* Model of easyspin/private/chili_lm2.c: the MEX kernel that assembles    *)
(* the sparse Liouville/diffusion superoperator in coordinate-list form.   *)
(*                                                                         *)
(* mexFunction parses its four arguments into the file-scope variables,    *)
(* counts the basis with BasisSize(), allocates the output buffers and     *)
(* runs makematrix(), a row loop nest around a column loop nest.  One      *)
(* model step is one execution of the innermost loop body (one visited     *)
(* (row, column) pair), one end-of-row increment, or one step of           *)
(* mexFunction.                                                            *)
(*                                                                         *)
(* Real (double) quantities are carried as integers.  The potential-       *)
(* independent diffusion term and the exchange term are exact for the      *)
(* inputs drawn here (rates differ by multiples of 12, the exchange rate   *)
(* is a multiple of 144).  Irrational factors (square roots, Clebsch-Gordan *)
(* constants, the 3j symbol jjj of jjj.h) are replaced by integers with    *)
(* the same sign and the same zero set, so that for them only "is zero",   *)
(* sign and equality of two stores are meaningful, not the magnitude.      *)
(***************************************************************************)
EXTENDS Integers, Sequences, FiniteSets, TLC

(***************************************************************************)
(* Small integer helpers of the C file.                                    *)
(***************************************************************************)
\* C remainder k % 2: the sign follows the dividend.
isodd(k) == IF k >= 0 THEN k % 2 ELSE -((-k) % 2)

\* A parity that takes every number for even.
parityAlwaysEven(k) == 1

parity(k) == IF isodd(k) # 0 THEN -1 ELSE 1

mini(a, b) == IF a < b THEN a ELSE b

abs(x) == IF x < 0 THEN -x ELSE x

\* C truth value of a comparison, and the bitwise & of two truth values.
b2i(b) == IF b THEN 1 ELSE 0

bitand(a, b) == IF a = 1 /\ b = 1 THEN 1 ELSE 0

\* A loop that stops one short: `for (v=lo; v<hi; v+=step)`.
ForRangeExclusive(lo, hi, step) ==
  IF hi <= lo THEN << >>
  ELSE [i \in 1..((hi - 1 - lo) \div step + 1) |-> lo + (i - 1) * step]

\* The values a loop `for (v=lo; v<=hi; v+=step)` gives v, for step >= 1.
ForRange(lo, hi, step) ==
  IF hi < lo THEN << >>
  ELSE [i \in 1..((hi - lo) \div step + 1) |-> lo + (i - 1) * step]

\* Concatenation of F(s[1]), F(s[2]), ...: the iterations of one loop level.
ForEach(s, F(_)) ==
  LET f[i \in 0..Len(s)] == IF i = 0 THEN << >> ELSE f[i - 1] \o F(s[i])
  IN f[Len(s)]

\* Number of increments made by the iterations of one loop level.
ForCount(s, F(_)) ==
  LET f[i \in 0..Len(s)] == IF i = 0 THEN 0 ELSE f[i - 1] + F(s[i])
  IN f[Len(s)]

\* One loop level of the column nest: the flag diagRC is read when a loop's
\* lower bound is computed and cleared by the loop body, so it is threaded
\* through the iterations.  F(x, d) gives [out, d] for one iteration.
ForEachD(s, d0, F(_, _)) ==
  LET f[i \in 0..Len(s)] ==
        IF i = 0 THEN [out |-> << >>, d |-> d0]
        ELSE LET r == F(s[i], f[i - 1].d)
             IN [out |-> f[i - 1].out \o r.out, d |-> r.d]
  IN f[Len(s)]

BasisIndex(L, jK, K, M, pS, qS, pI, qI, pIb, qIb) ==
  [L |-> L, jK |-> jK, K |-> K, M |-> M, pS |-> pS, qS |-> qS,
   pI |-> pI, qI |-> qI, pIb |-> pIb, qIb |-> qIb]

(***************************************************************************)
(* BasisSize(): the counting loop nest.  B is the truncation (Lemax, Lomax,*)
(* Kmax, Mmax, jKmin, pSmin, deltaK, MeirovitchSymm, pImax, pIbmax), S     *)
(* the system record; twoI = (int)(2*I).                                   *)
(***************************************************************************)
\* A counting nest whose K=0 filter joins its two tests with | instead of &.
BasisSizeOrFilter(B, S) ==
  ForCount(ForRange(0, B.Lemax, 1), LAMBDA L1:
    IF isodd(L1) # 0 /\ L1 > B.Lomax THEN 0 ELSE
    ForCount(ForRange(B.jKmin, 1, 2), LAMBDA jK1:
      ForCount(ForRange(0, mini(B.Kmax, L1), B.deltaK), LAMBDA K1:
        IF K1 = 0 \/ parity(L1) # jK1 THEN 0 ELSE
        ForCount(ForRange(-mini(B.Mmax, L1), mini(B.Mmax, L1), 1), LAMBDA M1:
          ForCount(ForRange(B.pSmin, 1, 1), LAMBDA pS1:
            ForCount(ForRange(-(1 - abs(pS1)), 1 - abs(pS1), 2), LAMBDA qS1:
              ForCount(ForRange(-B.pImax, B.pImax, 1), LAMBDA pI1:
                ForCount(ForRange(-(S.twoI - abs(pI1)), S.twoI - abs(pI1), 2), LAMBDA qI1:
                  ForCount(ForRange(-B.pIbmax, B.pIbmax, 1), LAMBDA pI1b:
                    IF B.MeirovitchSymm # 0 /\ S.DirTilt = 0
                       /\ (pI1 + pI1b + pS1 - 1) # M1 THEN 0 ELSE
                    ForCount(ForRange(-(S.twoIb - abs(pI1b)), S.twoIb - abs(pI1b), 2),
                             LAMBDA qI1b: 1))))))))))

BasisSize(B, S) ==
  ForCount(ForRange(0, B.Lemax, 1), LAMBDA L1:
    IF isodd(L1) # 0 /\ L1 > B.Lomax THEN 0 ELSE
    ForCount(ForRange(B.jKmin, 1, 2), LAMBDA jK1:
      ForCount(ForRange(0, mini(B.Kmax, L1), B.deltaK), LAMBDA K1:
        IF bitand(b2i(K1 = 0), b2i(parity(L1) # jK1)) # 0 THEN 0 ELSE
        ForCount(ForRange(-mini(B.Mmax, L1), mini(B.Mmax, L1), 1), LAMBDA M1:
          ForCount(ForRange(B.pSmin, 1, 1), LAMBDA pS1:
            ForCount(ForRange(-(1 - abs(pS1)), 1 - abs(pS1), 2), LAMBDA qS1:
              ForCount(ForRange(-B.pImax, B.pImax, 1), LAMBDA pI1:
                ForCount(ForRange(-(S.twoI - abs(pI1)), S.twoI - abs(pI1), 2), LAMBDA qI1:
                  ForCount(ForRange(-B.pIbmax, B.pIbmax, 1), LAMBDA pI1b:
                    IF B.MeirovitchSymm # 0 /\ S.DirTilt = 0
                       /\ (pI1 + pI1b + pS1 - 1) # M1 THEN 0 ELSE
                    ForCount(ForRange(-(S.twoIb - abs(pI1b)), S.twoIb - abs(pI1b), 2),
                             LAMBDA qI1b: 1))))))))))

(***************************************************************************)
(* makematrix(): the row loop nest, as the sequence of row tuples in the   *)
(* order the loops visit them.                                             *)
(***************************************************************************)
RowLoop(B, S) ==
  ForEach(ForRange(0, B.Lemax, 1), LAMBDA L1:
    IF isodd(L1) # 0 /\ L1 > B.Lomax THEN << >> ELSE
    ForEach(ForRange(B.jKmin, 1, 2), LAMBDA jK1:
      ForEach(ForRange(0, mini(B.Kmax, L1), B.deltaK), LAMBDA K1:
        IF K1 = 0 /\ parity(L1) # jK1 THEN << >> ELSE
        ForEach(ForRange(-mini(B.Mmax, L1), mini(B.Mmax, L1), 1), LAMBDA M1:
          ForEach(ForRange(B.pSmin, 1, 1), LAMBDA pS1:
            ForEach(ForRange(-(1 - abs(pS1)), 1 - abs(pS1), 2), LAMBDA qS1:
              ForEach(ForRange(-B.pImax, B.pImax, 1), LAMBDA pI1:
                ForEach(ForRange(-(S.twoI - abs(pI1)), S.twoI - abs(pI1), 2), LAMBDA qI1:
                  ForEach(ForRange(-B.pIbmax, B.pIbmax, 1), LAMBDA pI1b:
                    IF B.MeirovitchSymm # 0 /\ S.DirTilt = 0
                       /\ (pI1 + pI1b + pS1 - M1) # 1 THEN << >> ELSE
                    ForEach(ForRange(-(S.twoIb - abs(pI1b)), S.twoIb - abs(pI1b), 2),
                            LAMBDA qI1b:
                      << BasisIndex(L1, jK1, K1, M1, pS1, qS1, pI1, qI1, pI1b, qI1b) >>
                    ))))))))))

(***************************************************************************)
(* makematrix(): the column loop nest of row tuple r, entered with         *)
(* diagRC = true; every lower bound is (diagRC) ? row value : loop minimum *)
(* with the value diagRC has when the loop is entered.                     *)
(***************************************************************************)
Lband == 8

Kband == 8

\* A column loop started at the loop's own minimum whatever diagRC is.
LoopMinIgnoringDiag(d, rowval, loopmin) == loopmin

\* Lower bound of a column loop: (diagRC) ? row value : loop minimum.
LoopMin(d, rowval, loopmin) == IF d THEN rowval ELSE loopmin

ColLoop(B, S, r) ==
  ForEachD(ForRange(r.L, mini(B.Lemax, r.L + Lband), 1), TRUE, LAMBDA L2, d1:
    IF isodd(L2) # 0 /\ L2 > B.Lomax THEN [out |-> << >>, d |-> d1] ELSE
    ForEachD(ForRange(LoopMin(d1, r.jK, B.jKmin), 1, 2), d1, LAMBDA jK2, d2:
      ForEachD(ForRange(LoopMin(d2, r.K, 0), mini(B.Kmax, L2), B.deltaK), d2, LAMBDA K2, d3:
        IF K2 = 0 /\ parity(L2) # jK2 THEN [out |-> << >>, d |-> d3] ELSE
        ForEachD(ForRange(LoopMin(d3, r.M, -mini(B.Mmax, L2)), mini(B.Mmax, L2), 1), d3,
                 LAMBDA M2, d4:
          ForEachD(ForRange(LoopMin(d4, r.pS, B.pSmin), 1, 1), d4, LAMBDA pS2, d5:
            ForEachD(ForRange(LoopMin(d5, r.qS, -(1 - abs(pS2))), 1 - abs(pS2), 2), d5,
                     LAMBDA qS2, d6:
              ForEachD(ForRange(LoopMin(d6, r.pI, -B.pImax), B.pImax, 1), d6, LAMBDA pI2, d7:
                ForEachD(ForRange(LoopMin(d7, r.qI, -(S.twoI - abs(pI2))),
                                  S.twoI - abs(pI2), 2), d7, LAMBDA qI2, d8:
                  ForEachD(ForRange(LoopMin(d8, r.pIb, -B.pIbmax), B.pIbmax, 1), d8,
                           LAMBDA pI2b, d9:
                    IF B.MeirovitchSymm # 0 /\ S.DirTilt = 0
                       /\ (pI2 + pI2b + pS2 - 1) # M2 THEN [out |-> << >>, d |-> d9] ELSE
                    ForEachD(ForRange(LoopMin(d9, r.qIb, -(S.twoIb - abs(pI2b))),
                                      S.twoIb - abs(pI2b), 2), d9, LAMBDA qI2b, d10:
                      [out |-> << BasisIndex(L2, jK2, K2, M2, pS2, qS2,
                                             pI2, qI2, pI2b, qI2b) >>,
                       d |-> FALSE]
                    )))))))))).out

(***************************************************************************)
(* Host arrays.  The C structs hold pointers into arrays owned by the      *)
(* host; the model holds the name of the array and HostArray gives its     *)
(* contents (C index i is element i+1).  NULL is the null pointer returned *)
(* by mxGetPi for a real array.                                            *)
(***************************************************************************)
NULL == "NULL"

\* A potential coefficient table of (maxL+1) x (2*maxL+1) doubles whose
\* entries of even rank are nonzero (multiples of 4, see NormFactor).
XlkTable(maxL) ==
  [i \in 1..((maxL + 1) * (2 * maxL + 1)) |->
     IF ((i - 1) % (maxL + 1)) % 2 = 0 THEN 4 ELSE 0]

HostArray(ptr) ==
  CASE ptr = "zero5"  -> << 0, 0, 0, 0, 0 >>
    [] ptr = "axial5" -> << 0, 0, 3, 0, 0 >>
    [] ptr = "full5"  -> << 2, 1, 3, 1, 2 >>
    [] ptr = "imag5"  -> << 1, 0, 0, 0, -1 >>
    [] ptr = "d2eye"  -> [i \in 1..25 |-> IF (i - 1) % 5 = (i - 1) \div 5 THEN 1 ELSE 0]
    [] ptr = "d2full" -> [i \in 1..25 |-> 1 + ((i - 1) % 2)]
    [] ptr = "xlk0"   -> << 4 >>
    [] ptr = "xlk2"   -> XlkTable(2)
    [] ptr = "xlk8"   -> XlkTable(8)
    [] OTHER          -> << >>

\* Read of element idx (C index) of a host array; a read outside the array
\* is undefined and gives the arbitrary value junk.
ReadAt(ptr, idx, junk) ==
  LET a == HostArray(ptr)
  IN IF idx >= 0 /\ idx < Len(a) THEN a[idx + 1] ELSE junk

InBounds(ptr, idx) == idx >= 0 /\ idx < Len(HostArray(ptr))

(***************************************************************************)
(* Real functions, carried as integers.                                    *)
(***************************************************************************)
RECURSIVE SqrtFrom(_, _)
SqrtFrom(x, n) == IF n * n >= x THEN n ELSE SqrtFrom(x, n + 1)

\* sqrt(x) for an integer x >= 0, rounded up: zero exactly when x is zero.
sqrt(x) == SqrtFrom(x, 0)

\* The Clebsch-Gordan constants, in thousandths.
sqrt12 == 707

sqrt13 == 577

sqrt23 == 816

sqrt16 == 408

one == 1000

\* jjj(j1,j2,j3,m1,m2,m3) of jjj.h, the 3j symbol: zero outside the triangle
\* and projection rules, and for three zero projections with odd j1+j2+j3.
jjj(j1, j2, j3, m1, m2, m3) ==
  IF /\ m1 + m2 + m3 = 0
     /\ abs(m1) <= j1 /\ abs(m2) <= j2 /\ abs(m3) <= j3
     /\ abs(j1 - j2) <= j3 /\ j3 <= j1 + j2
     /\ ~(m1 = 0 /\ m2 = 0 /\ m3 = 0 /\ (j1 + j2 + j3) % 2 = 1)
  THEN 1 ELSE 0

(***************************************************************************)
(* Per-pair quantities of makematrix(), for row tuple r and column tuple   *)
(* c.  S is Sys, D is Diff.                                                *)
(***************************************************************************)
Potential(D) == D.maxL >= 0

ExchangePresent(D) == D.Exchange # 0

RhombicDiff(D) == D.Rxx # D.Ryy

\* A diagonal term that forgets to halve Rxx+Ryy.
IsoDiffKdiagNotHalved(D, L1, K1) ==
  (D.Rxx + D.Ryy) * (L1 * (L1 + 1)) + K1 * K1 * (D.Rzz - (D.Rxx + D.Ryy) \div 2)

\* Potential-independent part of the diffusion operator (row quantities).
IsoDiffKdiag(D, L1, K1) ==
  ((D.Rxx + D.Ryy) \div 2) * (L1 * (L1 + 1)) + K1 * K1 * (D.Rzz - (D.Rxx + D.Ryy) \div 2)

IsoDiffKm2(D, L1, K1) ==
  IF RhombicDiff(D)
  THEN LET KK == K1 - 2
       IN ((D.Rxx - D.Ryy) \div 4)
          * sqrt((L1 - KK - 1) * (L1 - KK) * (L1 + KK + 1) * (L1 + KK + 2))
  ELSE 0

IsoDiffKp2(D, L1, K1) ==
  IF RhombicDiff(D)
  THEN LET KK == K1 + 2
       IN ((D.Rxx - D.Ryy) \div 4)
          * sqrt((L1 + KK - 1) * (L1 + KK) * (L1 - KK + 1) * (L1 - KK + 2))
  ELSE 0

N_L(L1, L2) == sqrt((2 * L1 + 1) * (2 * L2 + 1))

\* N_K(K1,K2), Eq. (A43), times 4: 1 -> 4, 1/sqrt(2) -> 3, 1/2 -> 2.
N_K(K1, K2) ==
  IF K1 = 0 /\ K2 = 0 THEN 2 ELSE IF K1 = 0 \/ K2 = 0 THEN 3 ELSE 4

\* NormFactor = N_L*N_K*parity(M1+K1), times 4.
NormFactor(r, c) == N_L(r.L, c.L) * N_K(r.K, c.K) * parity(r.M + r.K)

\* R(mu;l=2) of Eq. (A42), (A44) for the tensor (re, im): R_EZI2, R_HFI2, R_HFI2b.
R_2(re, im, r, c, junk) ==
  LET Kd == r.K - c.K
      Ks == r.K + c.K
      Ld2 == abs(r.L - c.L) <= 2
      parityLK2 == parity(c.L + c.K)
      a1 == IF abs(Kd) <= 2
            THEN LET coeff == jjj(r.L, 2, c.L, r.K, -Kd, -c.K)
                 IN IF r.jK = c.jK THEN coeff * ReadAt(re, Kd + 2, junk)
                    ELSE IF im # NULL THEN coeff * ReadAt(im, Kd + 2, junk) * r.jK
                    ELSE 0
            ELSE 0
      a2 == IF abs(Ks) <= 2
            THEN LET coeff == jjj(r.L, 2, c.L, r.K, -Ks, c.K)
                 IN IF r.jK = c.jK THEN coeff * ReadAt(re, Ks + 2, junk)
                    ELSE IF im # NULL THEN coeff * ReadAt(im, Ks + 2, junk) * r.jK
                    ELSE 0
            ELSE 0
  IN IF Ld2 THEN a1 + c.jK * parityLK2 * a2 ELSE 0

\* The flat indices into xlk read for rank L of the potential term.
XlkIdxKd(D, r, c, L) == ((r.K - c.K) + L) * (D.maxL + 1) + L

XlkIdxKs(D, r, c, L) == ((r.K + c.K) + L) * (D.maxL + 1) + L

\* A gate without the band limit on the K-sum.
PotGateNoKsBand(D, r, c) ==
  /\ Potential(D)
  /\ abs(r.L - c.L) <= Lband
  /\ parity(r.K + c.K) = 1
  /\ r.jK - c.jK = 0
  /\ abs(r.K - c.K) <= Kband

\* Whether the potential term of the pair is evaluated at all.
PotGate(D, r, c) ==
  /\ Potential(D)
  /\ abs(r.L - c.L) <= Lband
  /\ parity(r.K + c.K) = 1
  /\ r.jK - c.jK = 0
  /\ abs(r.K - c.K) <= Kband
  /\ abs(r.K + c.K) <= Kband

\* Potential-dependent term of the diffusion operator, Eq. (A40).
PotDiff(D, r, c, junk) ==
  LET Kd == r.K - c.K
      Ks == r.K + c.K
      parityLK2 == parity(c.L + c.K)
      Term1(L) == IF Kd >= -L
                  THEN LET X == ReadAt(D.xlk, XlkIdxKd(D, r, c, L), junk)
                       IN IF X # 0 THEN X * jjj(r.L, L, c.L, r.K, -Kd, -c.K) ELSE 0
                  ELSE 0
      Term2(L) == IF Ks <= L
                  THEN LET X == ReadAt(D.xlk, XlkIdxKs(D, r, c, L), junk)
                       IN IF X # 0 THEN parityLK2 * c.jK * X * jjj(r.L, L, c.L, r.K, -Ks, c.K)
                          ELSE 0
                  ELSE 0
      Sum == ForCount(ForRange(0, Lband, 2), LAMBDA L:
               IF Term1(L) # 0 \/ Term2(L) # 0
               THEN (Term1(L) + Term2(L)) * jjj(r.L, L, c.L, r.M, 0, -r.M)
               ELSE 0)
  IN IF PotGate(D, r, c) THEN (Sum * NormFactor(r, c)) \div 4 ELSE 0

\* Exchange term t*ExchangeFreq.
ExchangeTerm(S, D, r, c) ==
  LET diagLKM == r.L = c.L /\ r.K = c.K /\ r.jK = c.jK /\ r.M = c.M
      qd0 == r.qI = c.qI /\ r.qIb = c.qIb
  IN IF r.pS = c.pS /\ r.pI = c.pI /\ r.pIb = c.pIb /\ diagLKM
     THEN (IF qd0 /\ r.qS = c.qS THEN D.Exchange ELSE 0)
          - (IF qd0 /\ r.pS = 0 THEN D.Exchange \div 2 ELSE 0)
          - (IF r.pI = 0 /\ r.pIb = 0 /\ r.qS = c.qS
             THEN D.Exchange \div ((S.twoI + 1) * (S.twoIb + 1)) ELSE 0)
     ELSE 0

\* Matrix element of the diffusion superoperator.
GammaValue(S, D, r, c, junk) ==
  LET Ld == r.L - c.L
      Md == r.M - c.M
      jKd == r.jK - c.jK
      Kd == r.K - c.K
      diagS == r.pS = c.pS /\ r.qS = c.qS
      diagI == r.pI = c.pI /\ r.qI = c.qI /\ r.pIb = c.pIb /\ r.qIb = c.qIb
      iso == IF Ld = 0 /\ Md = 0 /\ jKd = 0
             THEN IF Kd = 0 THEN IsoDiffKdiag(D, r.L, r.K)
                  ELSE IF Kd = 2 THEN (IsoDiffKm2(D, r.L, r.K) * 4) \div N_K(r.K, c.K)
                  ELSE IF Kd = -2 THEN (IsoDiffKp2(D, r.L, r.K) * 4) \div N_K(r.K, c.K)
                  ELSE 0
             ELSE 0
      pot == IF Potential(D) /\ Md = 0 /\ jKd = 0 THEN PotDiff(D, r, c, junk) ELSE 0
  IN (IF diagS /\ diagI THEN iso + pot ELSE 0)
     + (IF ExchangePresent(D) THEN ExchangeTerm(S, D, r, c) ELSE 0)

\* The flat index into the 5x5 table d2psi read for the pair.
D2Idx(r, c) ==
  LET pd == (r.pS - c.pS) + (r.pI - c.pI) + (r.pIb - c.pIb)
      Md == r.M - c.M
  IN (pd + 2) + (Md + 2) * 5

\* Whether the Liouville block of the pair is entered (the d2psi read happens).
LiouGate(S, r, c) ==
  LET Md == r.M - c.M
      pSd == r.pS - c.pS
      qSd == r.qS - c.qS
      pId == r.pI - c.pI
      qId == r.qI - c.qI
      pIbd == r.pIb - c.pIb
      qIbd == r.qIb - c.qIb
      pd == pSd + pId + pIbd
  IN /\ abs(r.L - c.L) <= 2
     /\ abs(Md) <= 2
     /\ (S.DirTilt # 0 \/ pd = Md)
     /\ abs(pSd) <= 1 /\ abs(pId) <= 1 /\ abs(pIbd) <= 1
     /\ abs(pSd) = abs(qSd) /\ abs(pId) = abs(qId) /\ abs(pIbd) = abs(qIbd)

\* Hyperfine term of one nucleus (twoI, HFI0, R_HFI2): p1, q1 are the row's
\* nuclear indices, pd1, qd1 the row-column differences.  S_A is carried
\* times 4 (1/2 -> 2, 1/sqrt(8) -> 1, KI = sqrt(..)/2), the sum times 16000.
Hyperfine(twoI, HFI0, R_HFI2, r, pSd, qSd, p1, q1, pd1, qd1, NFd2jjj, includeRank0) ==
  LET t == q1 * qd1 + p1 * pd1
      KI == sqrt(twoI * (twoI + 2) - t * (t - 2))
      S_A == IF pd1 = 0
             THEN IF pSd = 0 THEN (r.pS * q1 + p1 * r.qS) * 2
                  ELSE -(p1 * pSd + q1 * qSd)
             ELSE IF pSd = 0 THEN -(r.pS * pd1 + r.qS * qd1) * KI
                  ELSE pSd * qd1 * KI
      C0 == IF pd1 = 0
            THEN IF pSd = 0 THEN -sqrt13 ELSE 0
            ELSE IF pSd = 0 THEN 0 ELSE sqrt13
      C2 == IF pd1 = 0
            THEN IF pSd = 0 THEN sqrt23 ELSE sqrt12
            ELSE IF pSd = 0 THEN sqrt12
                 ELSE IF pSd + pd1 = 0 THEN sqrt16 ELSE one
  IN NFd2jjj * R_HFI2 * (C2 * S_A)
     + (IF includeRank0 THEN 4 * HFI0 * (C0 * S_A) ELSE 0)

\* Matrix element of the Liouville operator, Eq. (A41), times 16000.
LiouvilleValue(S, r, c, junk) ==
  LET Md == r.M - c.M
      pSd == r.pS - c.pS
      qSd == r.qS - c.qS
      pId == r.pI - c.pI
      qId == r.qI - c.qI
      pIbd == r.pIb - c.pIb
      qIbd == r.qIb - c.qIb
      pd == pSd + pId + pIbd
      Ld2 == abs(r.L - c.L) <= 2
      diagS == pSd = 0 /\ qSd = 0
      diagI == pId = 0 /\ qId = 0 /\ pIbd = 0 /\ qIbd = 0
      diagLKM == r.L = c.L /\ r.K = c.K /\ r.jK = c.jK /\ Md = 0
      includeRank0 == diagLKM /\ pd = 0
      Liou3j == IF Ld2 THEN jjj(r.L, 2, c.L, r.M, -Md, -c.M) ELSE 0
      d2jjj == ReadAt(S.d2psi, D2Idx(r, c), junk) * Liou3j
      NFd2jjj == NormFactor(r, c) * d2jjj
      \* electronic Zeeman; S_g times 4 (1/sqrt(2) -> 3)
      C2g == IF pSd = 0 THEN sqrt23 ELSE sqrt12
      S_g == IF pSd = 0 THEN 4 * r.pS ELSE -3 * qSd
      EZ == IF diagI
            THEN NFd2jjj * R_2(S.ReEZI2, S.ImEZI2, r, c, junk) * (C2g * S_g)
                 + (IF includeRank0 THEN 16 * S.EZI0 * ((-sqrt13) * r.pS) ELSE 0)
            ELSE 0
      HF == IF S.twoI > 0 /\ pSd * pId = qSd * qId /\ pIbd = 0 /\ qIbd = 0
            THEN Hyperfine(S.twoI, S.HFI0, R_2(S.ReHFI2, S.ImHFI2, r, c, junk),
                           r, pSd, qSd, r.pI, r.qI, pId, qId, NFd2jjj, includeRank0)
            ELSE 0
      HFb == IF S.twoIb > 0 /\ pSd * pIbd = qSd * qIbd /\ pId = 0 /\ qId = 0
             THEN Hyperfine(S.twoIb, S.HFI0b, R_2(S.ReHFI2b, S.ImHFI2b, r, c, junk),
                            r, pSd, qSd, r.pIb, r.qIb, pIbd, qIbd, NFd2jjj, includeRank0)
             ELSE 0
      NZ == IF diagS /\ diagI /\ includeRank0
            THEN 16 * S.NZI0 * (-sqrt13) * r.pI + 16 * S.NZI0b * (-sqrt13) * r.pIb
            ELSE 0
  IN IF LiouGate(S, r, c) THEN EZ + HF + HFb + NZ ELSE 0

(***************************************************************************)
(* State.                                                                  *)
(***************************************************************************)
VARIABLES
  pc,            \* position: "idle" (in the host), "parsed", "alloc", "col",
                 \* "rowsdone", "made", "crashed"
  calls,         \* number of mexFunction calls made so far
  nrhs, nlhs,    \* argument counts of the current call
  prhs,          \* arguments of the current call: [S, B, D, A]
  outcome,       \* how the last call ended: "none", "return", "error"
  err,           \* message of the last mexErrMsgTxt
  plhs,          \* outputs 3 and 4 of the last completed call: <<nRows, nElements>>
  Sys, Diff,     \* file-scope structs
  Basis,         \* file-scope Lemax, Lomax, Kmax, Mmax, jKmin, pSmin, deltaK,
                 \* MeirovitchSymm, pImax, pIbmax
  maxElements, maxRows, nRows, nElements,   \* file-scope counters and limits
  N,             \* mexFunction's local N
  bufLen,        \* length of the buffers created by mxCreateDoubleMatrix
  ridx, cidx, MatrixRe, MatrixIm,   \* written prefix of the output buffers
  iRow, iCol, iElement, diagRC,     \* makematrix locals
  row,           \* loop variables L1..qI1b of the current row
  col,           \* loop variables L2..qI2b of the last executed body
  rows,          \* iterations of the row nest still to run
  cols,          \* iterations of the column nest still to run for this row
  GammaElement, LiouvilleElement,   \* values computed by the last body
  stores,        \* buffer indices written by the last body, in order
  bs,            \* BasisSize(): its locals N, L1, jK1, K1 and its position
  heap,          \* the host's heap: "ok", or "damaged" by a store outside a buffer
  first          \* history: the arguments and the result of the first call

vars == << pc, calls, nrhs, nlhs, prhs, outcome, err, plhs, Sys, Diff, Basis,
           maxElements, maxRows, nRows, nElements, N, bufLen,
           ridx, cidx, MatrixRe, MatrixIm, iRow, iCol, iElement, diagRC,
           row, col, rows, cols, GammaElement, LiouvilleElement, stores,
           bs, heap, first >>

globals == << Sys, Diff, Basis, maxElements, maxRows, nRows, nElements >>

buffers == << bufLen, ridx, cidx, MatrixRe, MatrixIm >>

locals == << iRow, iCol, iElement, diagRC, row, col, rows, cols,
             GammaElement, LiouvilleElement, stores >>

callargs == << nrhs, nlhs, prhs >>

NoTuple == BasisIndex(0, 0, 0, 0, 0, 0, 0, 0, 0, 0)

ErrArgsIn == "4 input arguments expected!"

ErrArgsOut == "3 output arguments expected!"

ErrElements == "Number of non-zero elements too large. Increase Opt.Allocation(1)."

ErrRows == "Dimension too large. Increase Opt.Allocation(2)."

(***************************************************************************)
(* Inputs of a call: the host's Sys, basisopts, Diff and allocation        *)
(* records.                                                                *)
(***************************************************************************)
SysZero ==
  [twoI |-> 0, twoIb |-> 0, EZI0 |-> 0, NZI0 |-> 0, HFI0 |-> 0, NZI0b |-> 0, HFI0b |-> 0,
   ReEZI2 |-> "zero5", ImEZI2 |-> NULL, ReHFI2 |-> "zero5", ImHFI2 |-> NULL,
   ReHFI2b |-> "zero5", ImHFI2b |-> NULL, d2psi |-> "d2eye", DirTilt |-> 0]

SysEZ == [SysZero EXCEPT !.EZI0 = 2, !.ReEZI2 = "full5", !.ImEZI2 = "imag5"]

SysHF == [SysZero EXCEPT !.twoI = 1, !.EZI0 = 2, !.ReEZI2 = "axial5", !.NZI0 = 1,
                         !.HFI0 = 3, !.ReHFI2 = "full5"]

SysTilt == [SysEZ EXCEPT !.DirTilt = 1, !.d2psi = "d2full"]

DiffIso(R0) ==
  [Rxx |-> R0, Ryy |-> R0, Rzz |-> R0, Exchange |-> 0, xlk |-> NULL, maxL |-> -1]

DiffRhombic == [DiffIso(4) EXCEPT !.Rxx = 16, !.Rzz = 8]

DiffExchange == [DiffIso(4) EXCEPT !.Exchange = 144]

DiffPot(maxL, table) == [DiffIso(4) EXCEPT !.xlk = table, !.maxL = maxL]

BasisOpts(Lemax, Lomax, Kmax, Mmax, jKmin, pSmin, deltaK, symm, pImax, pIbmax) ==
  [Lemax |-> Lemax, Lomax |-> Lomax, Kmax |-> Kmax, Mmax |-> Mmax, jKmin |-> jKmin,
   pSmin |-> pSmin, deltaK |-> deltaK, MeirovitchSymm |-> symm,
   pImax |-> pImax, pIbmax |-> pIbmax]

Alloc(maxE, maxR) == [maxElements |-> maxE, maxRows |-> maxR]

\* beyond is the value found in the memory outside the host arrays.
CallArgs(S, B, D, A, beyond) == [S |-> S, B |-> B, D |-> D, A |-> A, beyond |-> beyond]

\* Bounds of the truncation sweep and of the small element capacities.
MaxLemax == 2

MaxLomax == 1

MaxKmax == 2

MaxMmax == 1

MaxCap == 4

\* A capacity no basis of the model fills, and a caller's row limit.
BigCap == 5000

\* Values an out-of-bounds read can give.
Junk == {0, 4}

\* Truncations of a spinless system, swept.
SweepBasis ==
  { BasisOpts(le, lo, k, m, jk, 1, dk, sy, 0, 0) :
      le \in 0..MaxLemax, lo \in 0..MaxLomax, k \in 0..MaxKmax, m \in 0..MaxMmax,
      jk \in {-1, 1}, dk \in {1, 2}, sy \in {0, 1} }

\* Truncations reaching the L band (L2 <= L1+8) and the K band (8).
BandBasis ==
  { BasisOpts(10, 0, 0, 0, 1, 1, 1, 0, 0, 0),
    BasisOpts(5, 5, 5, 0, 1, 1, 1, 0, 0, 0) }

\* Truncations with one nucleus.
SpinBasis ==
  { BasisOpts(0, 0, 0, 0, 1, 0, 1, sy, 1, 0) : sy \in {0, 1} }
  \cup { BasisOpts(2, 0, 2, 1, -1, 1, 2, 1, 1, 0) }

\* The spinless scenario: Lemax=2, Lomax=1, Kmax=0, Mmax=0, jKmin=1, pSmin=0,
\* deltaK=2, with the symmetry flag clear or set.
ScenarioBasis == { BasisOpts(2, 1, 0, 0, 1, 0, 2, sy, 0, 0) : sy \in {0, 1} }

Args ==
  { CallArgs(SysZero, B, DiffIso(4), Alloc(BigCap, 1), 0) : B \in SweepBasis }
  \cup { CallArgs(SysZero, B, DiffIso(R0), Alloc(BigCap, BigCap), 0) :
           B \in ScenarioBasis \cup {BasisOpts(2, 0, 2, 1, -1, 0, 2, 0, 0, 0)}, R0 \in {4, 8} }
  \cup { CallArgs(S, BasisOpts(2, 0, 2, 1, -1, 0, 2, 0, 0, 0), D, Alloc(BigCap, BigCap), 0) :
           S \in {SysEZ, SysTilt},
           D \in {DiffIso(4), DiffRhombic, DiffExchange, DiffPot(8, "xlk8")} }
  \cup { CallArgs(SysEZ, BasisOpts(2, 0, 2, 1, -1, 0, 2, 0, 0, 0), DiffPot(2, "xlk2"),
                  Alloc(BigCap, BigCap), j) : j \in Junk }
  \cup { CallArgs(SysHF, B, D, Alloc(BigCap, BigCap), 0) :
           B \in SpinBasis, D \in {DiffIso(4), DiffExchange} }
  \cup { CallArgs(SysEZ, B, D, Alloc(BigCap, BigCap), 0) :
           B \in BandBasis, D \in {DiffIso(4), DiffPot(8, "xlk8")} }
  \cup { CallArgs(SysEZ, BasisOpts(2, 0, 0, 0, 1, 0, 1, 0, 0, 0), DiffIso(4),
                  Alloc(cap, BigCap), 0) : cap \in 1..MaxCap }

(***************************************************************************)
(* Initial state: the file-scope variables as the C initialisers leave     *)
(* them, no call made yet.                                                 *)
(***************************************************************************)
InitMaxElements == 5000000

InitMaxRows == 100000

SysInit ==
  [twoI |-> 0, twoIb |-> 0, EZI0 |-> 0, NZI0 |-> 0, HFI0 |-> 0, NZI0b |-> 0, HFI0b |-> 0,
   ReEZI2 |-> NULL, ImEZI2 |-> NULL, ReHFI2 |-> NULL, ImHFI2 |-> NULL,
   ReHFI2b |-> NULL, ImHFI2b |-> NULL, d2psi |-> NULL, DirTilt |-> 0]

DiffInit == [Rxx |-> 0, Ryy |-> 0, Rzz |-> 0, Exchange |-> 0, xlk |-> NULL, maxL |-> 0]

NoArgs == CallArgs(SysInit, BasisOpts(0, 0, 0, 0, 0, 0, 0, 0, 0, 0), DiffInit, Alloc(0, 0), 0)

\* BasisSize() not running.
NoFrame == [at |-> "out", iRow |-> 0, L1 |-> 0, jK1 |-> 0, K1 |-> 0, spin |-> 0]

\* No call has been made before the current one.
NoFirst ==
  [nrhs |-> 0, nlhs |-> 0, prhs |-> NoArgs, result |-> [outcome |-> "none", err |-> ""]]

Init ==
  /\ pc = "idle" /\ calls = 0 /\ nrhs = 0 /\ nlhs = 0 /\ prhs = NoArgs
  /\ outcome = "none" /\ err = "" /\ plhs = << >>
  /\ Sys = SysInit /\ Diff = DiffInit
  /\ Basis = BasisOpts(0, 0, 0, 0, 0, 0, 0, 0, 0, 0)
  /\ maxElements = InitMaxElements /\ maxRows = InitMaxRows
  /\ nRows = 0 /\ nElements = 0 /\ N = 0
  /\ bufLen = 0 /\ ridx = << >> /\ cidx = << >> /\ MatrixRe = << >> /\ MatrixIm = << >>
  /\ iRow = 0 /\ iCol = 0 /\ iElement = 0 /\ diagRC = FALSE
  /\ row = NoTuple /\ col = NoTuple /\ rows = << >> /\ cols = << >>
  /\ GammaElement = 0 /\ LiouvilleElement = 0 /\ stores = << >>
  /\ bs = NoFrame /\ heap = "ok" /\ first = NoFirst

(***************************************************************************)
(* What the host sees of a call, and the history of the first call.        *)
(***************************************************************************)
\* The result of the call that has just ended: the error message of an
\* abort, or the outputs of a normal return (for a 4-input call the counts
\* and the written part of the buffers).
Result ==
  IF pc = "crashed" THEN [outcome |-> "crash", err |-> ""]
  ELSE IF outcome = "return" /\ nrhs = 4
  THEN [outcome |-> "return", err |-> "", nRows |-> plhs[1], nElements |-> plhs[2],
        ridx |-> ridx, cidx |-> cidx, MatrixRe |-> MatrixRe, MatrixIm |-> MatrixIm]
  ELSE [outcome |-> outcome, err |-> err]

\* Recorded when the second call starts: the first call and its result.
FirstCall ==
  IF calls = 1
  THEN [nrhs |-> nrhs, nlhs |-> nlhs, prhs |-> prhs, result |-> Result]
  ELSE first

(***************************************************************************)
(* mexFunction.                                                            *)
(***************************************************************************)
\* nrhs == 1: the early return.
MexCallJjj(limit) ==
  /\ pc = "idle" /\ calls < limit
  /\ calls' = calls + 1
  /\ nrhs' = 1 /\ nlhs' \in {0, 5} /\ prhs' = NoArgs
  /\ outcome' = "return" /\ err' = ""
  /\ first' = FirstCall
  /\ UNCHANGED << pc, plhs, N, globals, buffers, locals, bs, heap >>

\* nrhs != 4, or nlhs != 5: mexErrMsgTxt.
MexCallBadArity(limit) ==
  /\ pc = "idle" /\ calls < limit
  /\ calls' = calls + 1
  /\ \E ni \in {0, 3, 4, 5}, no \in {0, 3, 5} :
       /\ ni # 4 \/ no # 5
       /\ nrhs' = ni /\ nlhs' = no
       /\ err' = IF ni # 4 THEN ErrArgsIn ELSE ErrArgsOut
  /\ prhs' = NoArgs
  /\ outcome' = "error"
  /\ first' = FirstCall
  /\ UNCHANGED << pc, plhs, N, globals, buffers, locals, bs, heap >>

\* A call with 4 inputs and 5 outputs: the arguments are parsed into the
\* file-scope variables.
MexParse(argset, limit) ==
  /\ pc = "idle" /\ calls < limit
  /\ calls' = calls + 1
  /\ nrhs' = 4 /\ nlhs' = 5
  /\ \E a \in argset :
       /\ prhs' = a
       /\ Sys' = a.S
       /\ Basis' = a.B
       /\ Diff' = a.D
       /\ maxElements' = a.A.maxElements
       /\ maxRows' = a.A.maxRows
  /\ pc' = "parsed"
  /\ outcome' = "none" /\ err' = ""
  /\ first' = FirstCall
  /\ UNCHANGED << plhs, N, nRows, nElements, buffers, locals, bs, heap >>

\* N = (the value n BasisSize() returned); maxRows = N+1; the output buffers
\* are created.  On a heap damaged by an earlier store outside a buffer the
\* allocation is undefined: the process may die in it.
Allocate(n) ==
  /\ N' = n
  /\ maxRows' = n + 1
  /\ \E dies \in (IF heap = "damaged" THEN BOOLEAN ELSE {FALSE}) :
       IF dies
       THEN pc' = "crashed" /\ UNCHANGED buffers
       ELSE /\ bufLen' = maxElements
            /\ ridx' = << >> /\ cidx' = << >> /\ MatrixRe' = << >> /\ MatrixIm' = << >>
            /\ pc' = "alloc"
  /\ UNCHANGED << calls, callargs, outcome, err, plhs, Sys, Diff, Basis,
                  maxElements, nRows, nElements, locals, heap, first >>

\* N = BasisSize(); maxRows = N+1; the output buffers are created.
MexBasisSize ==
  /\ pc = "parsed"
  /\ Allocate(BasisSize(Basis, Sys))
  /\ UNCHANGED bs

(***************************************************************************)
(* makematrix().                                                           *)
(***************************************************************************)
\* A column counter that restarts from 0 at every row.
RowFirstColZero(i) == 0

\* iCol = iRow: the column counter at the start of the column loops of row i.
RowFirstCol(i) == i

\* Entry: the locals are initialised and the row loops reach their first
\* body (or are exhausted at once).
MakeMatrixEnter ==
  /\ pc = "alloc"
  /\ \E rs \in {RowLoop(Basis, Sys)} :
        /\ iRow' = 0 /\ iCol' = RowFirstCol(0) /\ iElement' = 0
        /\ IF rs = << >>
           THEN /\ pc' = "rowsdone"
                /\ UNCHANGED << row, rows, cols, diagRC >>
           ELSE /\ pc' = "col"
                /\ row' = Head(rs)
                /\ rows' = Tail(rs)
                /\ diagRC' = TRUE
                /\ cols' = ColLoop(Basis, Sys, Head(rs))
  /\ UNCHANGED << calls, callargs, outcome, err, plhs, N, globals, buffers,
                  col, GammaElement, LiouvilleElement, stores, bs, heap, first >>

\* A body that mirrors every stored entry, the diagonal one too.
StoreIdxAlwaysMirrored(store, i, d) ==
  IF ~store THEN << >> ELSE << i, i + 1 >>

\* The indices the body stores at: the entry, and its mirror unless diagRC.
StoreIdx(store, i, d) ==
  IF ~store THEN << >> ELSE IF d THEN << i >> ELSE << i, i + 1 >>

\* An entry that stores the coherent contribution without negating it.
StoredImNotNegated(Lv) == Lv

\* MatrixIm[iElement] = -LiouvilleElement, for the entry.
StoredIm(Lv) == -Lv

\* A mirror that repeats the row index instead of exchanging the two.
MirrorRowSame(r, c) == r

\* ridx[iElement] = iCol, for the mirrored entry.
MirrorRow(r, c) == c

\* A mirror that stores the complex conjugate.
MirrorImConjugated(Lv) == Lv

\* MatrixIm[iElement] = -LiouvilleElement, for the mirrored entry.
MirrorIm(Lv) == -Lv

\* The inner-most loop body for the next column tuple: the element is
\* computed and stored, then the two guards are evaluated.  A store at an
\* index outside the buffers is undefined: the process may die, or go on with
\* the buffers as they were.
PairBody ==
  /\ pc = "col" /\ cols # << >>
  /\ LET junk == prhs.beyond
         c == Head(cols)
         G == GammaValue(Sys, Diff, row, c, junk)
         Lv == LiouvilleValue(Sys, row, c, junk)
         store == G # 0 \/ Lv # 0
         idx == StoreIdx(store, iElement, diagRC)
         inb(k) == idx[k] < bufLen
         oob == \E k \in 1..Len(idx) : ~inb(k)
         put(buf, v1, v2) ==
           IF Len(idx) = 0 \/ ~inb(1) THEN buf
           ELSE IF Len(idx) = 1 \/ ~inb(2) THEN Append(buf, v1)
           ELSE Append(Append(buf, v1), v2)
     IN   /\ col' = c
          /\ cols' = Tail(cols)
          /\ GammaElement' = G
          /\ LiouvilleElement' = Lv
          /\ stores' = idx
          /\ MatrixRe' = put(MatrixRe, G, G)
          /\ MatrixIm' = put(MatrixIm, StoredIm(Lv), MirrorIm(Lv))
          /\ ridx' = put(ridx, iRow, MirrorRow(iRow, iCol))
          /\ cidx' = put(cidx, iCol, iRow)
          /\ iElement' = iElement + Len(idx)
          /\ heap' = IF oob THEN "damaged" ELSE heap
          /\ \E dies \in (IF oob THEN BOOLEAN ELSE {FALSE}) :
               IF dies
               THEN /\ pc' = "crashed"
                    /\ UNCHANGED << iCol, diagRC, outcome, err >>
               ELSE IF store /\ iElement' >= maxElements
               THEN /\ pc' = "idle" /\ outcome' = "error" /\ err' = ErrElements
                    /\ UNCHANGED << iCol, diagRC >>
               ELSE /\ iCol' = iCol + 1
                    /\ diagRC' = FALSE
                    /\ IF iCol' >= maxRows
                       THEN pc' = "idle" /\ outcome' = "error" /\ err' = ErrRows
                       ELSE UNCHANGED << pc, outcome, err >>
  /\ UNCHANGED << calls, callargs, plhs, N, globals, bufLen, iRow, row, rows,
                  bs, first >>

\* The column loops are exhausted: iRow++, its guard, and the next row tuple.
RowEnd ==
  /\ pc = "col" /\ cols = << >>
  /\ iRow' = iRow + 1
  /\ IF iRow' >= maxRows
     THEN /\ pc' = "idle" /\ outcome' = "error" /\ err' = ErrRows
          /\ UNCHANGED << iCol, diagRC, row, rows, cols >>
     ELSE /\ UNCHANGED << outcome, err >>
          /\ IF rows = << >>
             THEN /\ pc' = "rowsdone"
                  /\ UNCHANGED << iCol, diagRC, row, rows, cols >>
             ELSE /\ pc' = "col"
                  /\ row' = Head(rows)
                  /\ rows' = Tail(rows)
                  /\ iCol' = RowFirstCol(iRow')
                  /\ diagRC' = TRUE
                  /\ cols' = ColLoop(Basis, Sys, Head(rows))
  /\ UNCHANGED << calls, callargs, plhs, N, globals, buffers, iElement,
                  col, GammaElement, LiouvilleElement, stores, bs, heap, first >>

\* The row loops are exhausted: nRows = iRow; nElements = iElement.
MakeMatrixExit ==
  /\ pc = "rowsdone"
  /\ nRows' = iRow
  /\ nElements' = iElement
  /\ pc' = "made"
  /\ UNCHANGED << calls, callargs, outcome, err, plhs, N, Sys, Diff, Basis,
                  maxElements, maxRows, buffers, locals, bs, heap, first >>

\* mexFunction returns nRows and nElements in plhs[3], plhs[4].
MexReturn ==
  /\ pc = "made"
  /\ plhs' = << nRows, nElements >>
  /\ outcome' = "return"
  /\ pc' = "idle"
  /\ UNCHANGED << calls, callargs, err, N, globals, buffers, locals, bs, heap, first >>

Next ==
  \/ MexCallJjj(1)
  \/ MexCallBadArity(1)
  \/ MexParse(Args, 1)
  \/ MexBasisSize
  \/ MakeMatrixEnter
  \/ PairBody
  \/ RowEnd
  \/ MakeMatrixExit
  \/ MexReturn

Spec == Init /\ [][Next]_vars

(***************************************************************************)
(* Properties.                                                             *)
(***************************************************************************)
\* The call of mexFunction with 4 inputs and 5 outputs has returned normally.
Completed == pc = "idle" /\ outcome = "return" /\ nrhs = 4 /\ nlhs = 5

\* The body for the pair (row, col) has just run and makematrix goes on.
Visited == pc = "col" /\ iCol > iRow

\* The stored entries, as the host reads them.
Entries == 1..Len(ridx)

\* C1: the count BasisSize() returns is the number of row tuples the row
\* loop nest of makematrix() visits: while the rows run, N is the rows done
\* plus the current one plus those still to come, and a makematrix() that
\* completes leaves nRows = N, which is what the call returns.
C1_BasisSizeIsRowCount ==
  /\ pc = "col" => N = iRow + 1 + Len(rows)
  /\ pc = "rowsdone" => N = iRow /\ rows = << >>
  /\ pc = "made" => nRows = N
  /\ Completed => plhs[1] = N

\* A completed makematrix() over a basis in which the odd-L, the K=0 parity
\* and the symmetry filters each rejected tuples.
C1_Witness ==
  /\ pc = "made" /\ nRows = N /\ N >= 3
  /\ Basis.MeirovitchSymm # 0 /\ Basis.Mmax >= 1 /\ Basis.Lemax >= 2 /\ Basis.Lomax = 0

\* C2 (as claimed): every store of the body uses an index inside the
\* buffers, 0 <= index < maxElements.
C2_StoresInBounds ==
  \A k \in 1..Len(stores) : stores[k] >= 0 /\ stores[k] < bufLen

\* The number of entries makematrix() has to store for the current
\* parameters: 1 per nonzero diagonal pair, 2 per nonzero off-diagonal pair.
NonzeroEntries ==
  LET R == RowLoop(Basis, Sys)
  IN ForCount(R, LAMBDA r:
       ForCount(ColLoop(Basis, Sys, r), LAMBDA c:
         IF GammaValue(Sys, Diff, r, c, prhs.beyond) = 0
            /\ LiouvilleValue(Sys, r, c, prhs.beyond) = 0
         THEN 0 ELSE IF c = r THEN 1 ELSE 2))

\* The 4-input call has ended, one way or another.
Ended == pc = "crashed" \/ (pc = "idle" /\ nrhs = 4 /\ nlhs = 5 /\ outcome # "none")

C4_CallerRowLimitAborts ==
  pc = "made" => nRows < prhs.A.maxRows

\* C5: after makematrix() completes, every stored entry off the diagonal has
\* next to it in the buffers the entry with row and column exchanged and the
\* same real and the same imaginary part.
C5_Mirrored ==
  (pc = "made" \/ Completed) =>
    \A k \in Entries :
      ridx[k] # cidx[k] =>
        \E j \in {k - 1, k + 1} \cap Entries :
          /\ ridx[j] = cidx[k] /\ cidx[j] = ridx[k]
          /\ MatrixRe[j] = MatrixRe[k] /\ MatrixIm[j] = MatrixIm[k]

\* A completed matrix with an off-diagonal entry whose imaginary part is not
\* zero (a conjugated mirror would differ).
C5_Witness ==
  /\ pc = "made"
  /\ \E k \in Entries : ridx[k] # cidx[k] /\ MatrixIm[k] # 0 /\ MatrixRe[k] # 0

\* The row tuples whose L the column loops of the current row reach.
ColumnReach(R) == Cardinality({i \in 1..Len(R) : R[i].L <= row.L + Lband})

\* C6: positions are positions in the row enumeration: the current row is
\* the row tuple number iRow, and the column iterations still to run are the
\* row tuples number iCol, iCol+1, ... up to the last one with
\* L2 <= L1+8, in that order.
C6_ColumnsAreRowPositions ==
  pc = "col" =>
    LET R == RowLoop(Basis, Sys)
    IN /\ row = R[iRow + 1]
       /\ cols = SubSeq(R, iCol + 1, ColumnReach(R))
       /\ Visited => col = R[iCol]

\* A later column of a row whose column loops stop at L1+8, short of Lemax.
C6_Witness ==
  /\ Visited /\ iCol > iRow + 1 /\ col.L > row.L
  /\ row.L + Lband < Basis.Lemax /\ cols = << >> /\ rows # << >>

\* The body has just stored the entry of the pair (row, col): either
\* makematrix goes on, or the element guard has just aborted it.
Stored ==
  /\ stores # << >>
  /\ Visited \/ (pc = "idle" /\ outcome = "error" /\ err = ErrElements)

\* C7 (as claimed): no stored entry connects tuples with |L1-L2| > 8 and,
\* with a potential, none connects tuples with K1+K2 > 8 or |K1-K2| > 8.
C7_EntriesInKBand ==
  Stored =>
    /\ abs(row.L - col.L) <= Lband
    /\ Potential(Diff) => (row.K + col.K <= Kband /\ abs(row.K - col.K) <= Kband)

\* C7 (amended): no stored entry connects tuples with |L1-L2| > 8 and, with
\* a potential, an entry of tuples with K1+K2 > 8 or |K1-K2| > 8 holds no
\* potential-dependent contribution: its diffusion value is the one the
\* same pair has without potential.
C7_PotentialTermInKBand ==
  Stored =>
    /\ abs(row.L - col.L) <= Lband
    /\ (Potential(Diff) /\ (row.K + col.K > Kband \/ abs(row.K - col.K) > Kband))
         => GammaElement = GammaValue(Sys, [Diff EXCEPT !.maxL = -1], row, col, prhs.beyond)

\* A stored entry beyond the K band while a potential is present whose
\* coefficients for the pair are not zero.
C7_Witness ==
  /\ Stored /\ Potential(Diff) /\ row.K + col.K > Kband
  /\ ReadAt(Diff.xlk, XlkIdxKd(Diff, row, col, 2), 0) # 0

AllZero(ptr) == \A i \in 1..Len(HostArray(ptr)) : HostArray(ptr)[i] = 0

\* All interaction scalars and rank-2 tensors zero, no exchange, no
\* potential, isotropic diffusion, no tilt.
ZeroCase ==
  /\ Sys.EZI0 = 0 /\ Sys.NZI0 = 0 /\ Sys.HFI0 = 0 /\ Sys.NZI0b = 0 /\ Sys.HFI0b = 0
  /\ AllZero(Sys.ReEZI2) /\ AllZero(Sys.ImEZI2)
  /\ AllZero(Sys.ReHFI2) /\ AllZero(Sys.ImHFI2)
  /\ AllZero(Sys.ReHFI2b) /\ AllZero(Sys.ImHFI2b)
  /\ Diff.Exchange = 0 /\ Diff.maxL < 0
  /\ Diff.Rxx = Diff.Ryy /\ Diff.Ryy = Diff.Rzz
  /\ Sys.DirTilt = 0

\* C8: in the zero-interaction case every visited pair off the diagonal has
\* LiouvilleElement = 0 and every diagonal pair has
\* GammaElement = R0*L1*(L1+1).
C8_ZeroInteraction ==
  (Visited /\ ZeroCase) =>
    /\ iCol - 1 # iRow => LiouvilleElement = 0
    /\ iCol - 1 = iRow => GammaElement = Diff.Rxx * row.L * (row.L + 1)

\* A diagonal pair of the zero-interaction case with L1 = 2, K1 = 2, M1 = 1.
C8_Witness ==
  /\ Visited /\ ZeroCase /\ iCol - 1 = iRow
  /\ row.L = 2 /\ row.K = 2 /\ row.M = 1 /\ Diff.Rxx = 8 /\ GammaElement = 48

\* The scenario: spinless, Lemax=2, Lomax=1, Kmax=0, Mmax=0, jKmin=1,
\* pSmin=0, deltaK=2, zero interactions, isotropic diffusion.
IsScenario ==
  /\ Basis \in ScenarioBasis
  /\ Sys.twoI = 0 /\ Sys.twoIb = 0
  /\ ZeroCase

\* The row tuples of rank L whose diagonal diffusion value is R0*L*(L+1).
RankRows(L) ==
  LET R == RowLoop(Basis, Sys)
  IN {i \in 1..Len(R) :
        /\ R[i].L = L
        /\ GammaValue(Sys, Diff, R[i], R[i], prhs.beyond) = Diff.Rxx * L * (L + 1)}

\* C9 (as claimed): in the scenario the matrix is diagonal-only and the
\* basis has rows of each rank L in {0,1,2} with diagonal value R0*L*(L+1).
C9_ScenarioRanks012 ==
  (IsScenario /\ pc = "made") =>
    /\ \A k \in Entries : ridx[k] = cidx[k]
    /\ \A L \in {0, 1, 2} : RankRows(L) # {}

\* C9 (amended): in the scenario the matrix is diagonal-only, the basis has
\* rows of rank 0 and of rank 2 with diagonal value R0*L*(L+1) and none of
\* rank 1, and every stored entry is the value R0*L*(L+1) of its row, with
\* imaginary part zero.
C9_ScenarioRanks02 ==
  (IsScenario /\ pc = "made") =>
    LET R == RowLoop(Basis, Sys)
    IN /\ \A k \in Entries : ridx[k] = cidx[k]
       /\ \A L \in {0, 2} : RankRows(L) # {}
       /\ \A i \in 1..Len(R) : R[i].L # 1 /\ i \in RankRows(R[i].L)
       /\ \A k \in Entries :
            /\ MatrixRe[k] = Diff.Rxx * R[ridx[k] + 1].L * (R[ridx[k] + 1].L + 1)
            /\ MatrixIm[k] = 0

\* The scenario completed: six rows (three of rank 0, three of rank 2), of
\* which the three of rank 2 are stored with value 6*R0.
C9_Witness ==
  /\ IsScenario /\ pc = "made" /\ Basis.MeirovitchSymm = 0
  /\ nRows = 6 /\ nElements = 3
  /\ MatrixRe = << 6 * Diff.Rxx, 6 * Diff.Rxx, 6 * Diff.Rxx >>

\* C10: inside makematrix() neither counter decreases: an end of row adds 1
\* to iRow and nothing to iElement; a body leaves iRow and adds to iElement
\* 0 when both contributions are zero, 1 for a stored diagonal pair and 2
\* for a stored off-diagonal pair.
C10_MonotonicGrowth ==
  [][pc = "col" =>
       /\ iRow' >= iRow /\ iElement' >= iElement
       /\ cols = << >> => (iRow' = iRow + 1 /\ iElement' = iElement)
       /\ cols # << >> =>
            /\ iRow' = iRow
            /\ iElement' - iElement =
                 (IF GammaElement' = 0 /\ LiouvilleElement' = 0 THEN 0
                  ELSE IF col' = row THEN 1 ELSE 2)]_vars

\* A stored off-diagonal pair after a stored diagonal pair of the same row.
C10_Witness ==
  /\ Visited /\ Len(stores) = 2 /\ col # row
  /\ \E k \in Entries : ridx[k] = iRow /\ cidx[k] = iRow

\* C11 (as claimed): a call of mexFunction with a number of inputs other
\* than 4, or a number of outputs other than 5, ends in a fatal error, with
\* no parameter parsed, no buffer created and no enumeration run.
C11_WrongArityRejected ==
  (calls > 0 /\ (nrhs # 4 \/ nlhs # 5)) =>
    /\ pc = "idle" /\ outcome = "error" /\ err \in {ErrArgsIn, ErrArgsOut}
    /\ Sys = SysInit /\ Diff = DiffInit /\ N = 0 /\ bufLen = 0

\* The body has just run for the pair (row, col): makematrix goes on, or the
\* element guard has aborted it, or the process died in the store.
BodyRan ==
  \/ Visited
  \/ pc = "idle" /\ outcome = "error" /\ err = ErrElements
  \/ pc = "crashed" /\ stores # << >>

\* C12: the pair (row, col) is stored exactly when its diffusion
\* contribution or its coherent contribution is not zero; the entry (and its
\* mirror) then hold GammaElement as real part and -LiouvilleElement as
\* imaginary part, both being the values of that pair; no entry of the
\* buffers has both parts zero.
C12_StoredIffNonzero ==
  /\ BodyRan =>
       /\ GammaElement = GammaValue(Sys, Diff, row, col, prhs.beyond)
       /\ LiouvilleElement = LiouvilleValue(Sys, row, col, prhs.beyond)
       /\ (stores # << >>) <=> (GammaElement # 0 \/ LiouvilleElement # 0)
       /\ \A k \in 1..Len(stores) :
            stores[k] < bufLen =>
              /\ MatrixRe[stores[k] + 1] = GammaElement
              /\ MatrixIm[stores[k] + 1] = -LiouvilleElement
  /\ \A k \in Entries : MatrixRe[k] # 0 \/ MatrixIm[k] # 0

\* A stored pair whose diffusion contribution is zero and whose coherent
\* contribution is not, after a visited pair that was not stored.
C12_Witness ==
  /\ Visited /\ Len(stores) = 2
  /\ GammaElement = 0 /\ LiouvilleElement # 0
  /\ MatrixIm[stores[1] + 1] = -LiouvilleElement
  /\ Len(ridx) < 2 * (iCol - iRow) - 1

(***************************************************************************)
(* BasisSize() loop by loop: the loops over L1, jK1 and K1 take one step   *)
(* per test of their condition; the loops inside the K1 loop (M1 to qI1b,  *)
(* all of stride 1 or 2) are counted in one step.                          *)
(***************************************************************************)
\* The increments of iRow made by one iteration of the K1 loop that passes
\* the K1 = 0 filter.
BasisSizeInner(B, S, L1) ==
  ForCount(ForRange(-mini(B.Mmax, L1), mini(B.Mmax, L1), 1), LAMBDA M1:
    ForCount(ForRange(B.pSmin, 1, 1), LAMBDA pS1:
      ForCount(ForRange(-(1 - abs(pS1)), 1 - abs(pS1), 2), LAMBDA qS1:
        ForCount(ForRange(-B.pImax, B.pImax, 1), LAMBDA pI1:
          ForCount(ForRange(-(S.twoI - abs(pI1)), S.twoI - abs(pI1), 2), LAMBDA qI1:
            ForCount(ForRange(-B.pIbmax, B.pIbmax, 1), LAMBDA pI1b:
              IF B.MeirovitchSymm # 0 /\ S.DirTilt = 0
                 /\ (pI1 + pI1b + pS1 - 1) # M1 THEN 0 ELSE
              ForCount(ForRange(-(S.twoIb - abs(pI1b)), S.twoIb - abs(pI1b), 2),
                       LAMBDA qI1b: 1)))))))

\* BasisSize() is entered: iRow = 0, L1 = 0.
CountEnter ==
  /\ pc = "parsed"
  /\ pc' = "count"
  /\ bs' = [NoFrame EXCEPT !.at = "L"]
  /\ UNCHANGED << calls, callargs, outcome, err, plhs, N, globals, buffers, locals,
                  heap, first >>

\* for (L1=0; L1<=Lemax; L1++), the test holding: the odd-L filter, or the
\* jK1 loop is entered.
CountL ==
  /\ pc = "count" /\ bs.at = "L" /\ bs.L1 <= Basis.Lemax
  /\ bs' = IF isodd(bs.L1) # 0 /\ bs.L1 > Basis.Lomax
           THEN [bs EXCEPT !.L1 = @ + 1]
           ELSE [bs EXCEPT !.at = "jK", !.jK1 = Basis.jKmin]
  /\ UNCHANGED << pc, calls, callargs, outcome, err, plhs, N, globals, buffers, locals,
                  heap, first >>

\* for (jK1=jKmin; jK1<=1; jK1+=2): the K1 loop is entered, or the loop ends
\* and L1++.
CountJK ==
  /\ pc = "count" /\ bs.at = "jK"
  /\ bs' = IF bs.jK1 <= 1
           THEN [bs EXCEPT !.at = "K", !.K1 = 0]
           ELSE [bs EXCEPT !.at = "L", !.L1 = @ + 1]
  /\ UNCHANGED << pc, calls, callargs, outcome, err, plhs, N, globals, buffers, locals,
                  heap, first >>

\* for (K1=0; K1<=K1max; K1+=deltaK): one iteration (the filter or the inner
\* loops, then K1 += deltaK), or the loop ends and jK1 += 2.  spin is the
\* parity of the number of iterations run.
CountK ==
  /\ pc = "count" /\ bs.at = "K"
  /\ bs' = IF bs.K1 <= mini(Basis.Kmax, bs.L1)
           THEN [bs EXCEPT
                   !.iRow = IF bitand(b2i(bs.K1 = 0), b2i(parity(bs.L1) # bs.jK1)) # 0
                            THEN @ ELSE @ + BasisSizeInner(Basis, Sys, bs.L1),
                   !.K1 = @ + Basis.deltaK,
                   !.spin = 1 - @]
           ELSE [bs EXCEPT !.at = "jK", !.jK1 = @ + 2]
  /\ UNCHANGED << pc, calls, callargs, outcome, err, plhs, N, globals, buffers, locals,
                  heap, first >>

\* The L1 loop ends: return iRow; N = (that); maxRows = N+1; the buffers.
CountExit ==
  /\ pc = "count" /\ bs.at = "L" /\ bs.L1 > Basis.Lemax
  /\ Allocate(bs.iRow)
  /\ bs' = NoFrame

\* Truncations with any sign: no rank, K or M at all (-1), a K stride of 0.
\* With a stride of 0 and jKmin = 1 the K1 loop counts rows without end,
\* until iRow overflows; that case is not drawn.
EnumBasis ==
  { BasisOpts(le, 0, k, m, jk, 1, dk, 0, 0, 0) :
      le \in -1..MaxLemax, k \in -1..MaxKmax, m \in -1..MaxMmax,
      jk \in {-1, 1}, dk \in 0..2 }
  \ { B \in { BasisOpts(le, 0, k, m, 1, 1, 0, 0, 0, 0) :
                le \in -1..MaxLemax, k \in -1..MaxKmax, m \in -1..MaxMmax } :
        B.Kmax >= 0 /\ B.Lemax >= 0 }

EnumArgs == { CallArgs(SysZero, B, DiffIso(4), Alloc(BigCap, BigCap), 0) : B \in EnumBasis }

\* A step of the program inside a call of mexFunction.
EnumStep ==
  \/ CountEnter
  \/ CountL
  \/ CountJK
  \/ CountK
  \/ CountExit
  \/ MakeMatrixEnter
  \/ PairBody
  \/ RowEnd
  \/ MakeMatrixExit
  \/ MexReturn

NextEnum == MexParse(EnumArgs, 1) \/ EnumStep

\* Once called, the program runs on: a sequential program always takes its
\* next step.  Whether the host calls at all is left open.
SpecEnum == Init /\ [][NextEnum]_vars /\ WF_vars(EnumStep)

\* C13 (as claimed): for every integer truncation, once the arguments are
\* parsed BasisSize() returns and the row loops of makematrix() come to
\* their end (exhausted, or a fatal abort).
C13_EnumerationTerminates ==
  (pc = "parsed") ~> (pc = "rowsdone" \/ (pc = "idle" /\ outcome = "error"))

\* The tuples the filters of the row enumeration admit, for truncation B and
\* system S, stated as a set.
Admitted(B, S) ==
  { t \in [L : 0..B.Lemax, jK : B.jKmin..1, K : 0..B.Kmax, M : (-B.Mmax)..B.Mmax,
           pS : B.pSmin..1, qS : -1..1,
           pI : (-B.pImax)..B.pImax, qI : (-S.twoI)..S.twoI,
           pIb : (-B.pIbmax)..B.pIbmax, qIb : (-S.twoIb)..S.twoIb] :
      /\ t.L % 2 = 0 \/ t.L <= B.Lomax
      /\ (t.jK - B.jKmin) % 2 = 0
      /\ t.K <= t.L /\ t.K % B.deltaK = 0
      /\ t.K = 0 => parity(t.L) = t.jK
      /\ abs(t.M) <= t.L
      /\ abs(t.qS) <= 1 - abs(t.pS) /\ (t.qS + 1 - abs(t.pS)) % 2 = 0
      /\ abs(t.qI) <= S.twoI - abs(t.pI) /\ (t.qI + S.twoI - abs(t.pI)) % 2 = 0
      /\ abs(t.qIb) <= S.twoIb - abs(t.pIb) /\ (t.qIb + S.twoIb - abs(t.pIb)) % 2 = 0
      /\ (B.MeirovitchSymm # 0 /\ S.DirTilt = 0) => t.pI + t.pIb + t.pS - t.M = 1 }

\* The tuple as the sequence (L, jK, K, M, pS, qS, pI, qI, pIb, qIb).
TupleKey(t) == << t.L, t.jK, t.K, t.M, t.pS, t.qS, t.pI, t.qI, t.pIb, t.qIb >>

\* Strict lexicographic order of two tuples.
LexLess(a, b) ==
  \E i \in 1..10 :
    /\ TupleKey(a)[i] < TupleKey(b)[i]
    /\ \A j \in 1..(i - 1) : TupleKey(a)[j] = TupleKey(b)[j]

\* C14: the row loops yield exactly the tuples the stated filters admit, each
\* once, in strictly increasing lexicographic order: at the start of every
\* row and at the end of the row loops, the tuples of the enumeration are
\* the admitted set, consecutive tuples increase strictly, and the current
\* row and the rows to come are the enumeration from position iRow on.
C14_RowsAreAdmittedTuples ==
  ((pc = "col" /\ diagRC) \/ pc = "rowsdone") =>
    LET R == RowLoop(Basis, Sys)
    IN /\ {R[i] : i \in 1..Len(R)} = Admitted(Basis, Sys)
       /\ \A i \in 1..(Len(R) - 1) : LexLess(R[i], R[i + 1])
       /\ pc = "col" => << row >> \o rows = SubSeq(R, iRow + 1, Len(R))
       /\ pc = "rowsdone" => (rows = << >> /\ iRow = Len(R))

\* The end of the row loops over a basis in which the odd-L filter, the K
\* stride, the K=0 parity filter and the symmetry filter each rejected
\* tuples, and in which K, M and jK each take several values.
C14_Witness ==
  /\ pc = "rowsdone" /\ iRow >= 3
  /\ Basis.MeirovitchSymm # 0 /\ Basis.Mmax >= 1 /\ Basis.Lemax >= 2 /\ Basis.Lomax = 1
  /\ Basis.Kmax = 2 /\ Basis.deltaK = 2 /\ Basis.jKmin = -1

(***************************************************************************)
(* Calls for a tilted director and two nuclei of spin 1/2.                 *)
(***************************************************************************)
SysTwoNuclei ==
  [SysZero EXCEPT !.twoI = 1, !.twoIb = 1, !.DirTilt = 1, !.d2psi = "d2full"]

\* Truncations with pSmin = 0 and pImax = pIbmax = 1: of rank 0 only, and of
\* ranks 0 and 1 with Mmax = 1.
TiltBasis ==
  { BasisOpts(0, 0, 0, 0, 1, 0, 1, 0, 1, 1),
    BasisOpts(1, 1, 0, 1, -1, 0, 1, 0, 1, 1) }

TiltArgs ==
  { CallArgs(SysTwoNuclei, B, DiffIso(4), Alloc(BigCap, BigCap), 0) : B \in TiltBasis }

NextTilt ==
  \/ MexParse(TiltArgs, 1)
  \/ MexBasisSize
  \/ MakeMatrixEnter
  \/ PairBody
  \/ RowEnd
  \/ MakeMatrixExit
  \/ MexReturn

SpecTilt == Init /\ [][NextTilt]_vars

\* pd = pSd + pId + pIbd of the pair (line 311).
PdOf(r, c) == (r.pS - c.pS) + (r.pI - c.pI) + (r.pIb - c.pIb)

\* C15 (as claimed): whenever the body reads d2psi for the pair (row, col),
\* -2 <= pd <= 2, -2 <= Md <= 2 and the flat index (pd+2)+(Md+2)*5 is in
\* 0..24.
C15_D2psiIndexInTable ==
  (BodyRan /\ LiouGate(Sys, row, col)) =>
    /\ PdOf(row, col) \in -2..2
    /\ row.M - col.M \in -2..2
    /\ D2Idx(row, col) \in 0..24

\* The read of d2psi for the pair (row, col) was outside the 25 elements.
D2psiReadOutside ==
  BodyRan /\ LiouGate(Sys, row, col) /\ D2Idx(row, col) \notin 0..24

\* The reads of xlk made for the pair (r, c), as (rank L, offset k): the loop
\* of line 249 runs over the even ranks 0..Lband, reading at k = Kd when
\* Kd >= -L (line 252) and at k = Ks when Ks <= L (line 258).
XlkReads(D, r, c) ==
  IF PotGate(D, r, c)
  THEN LET Ls == ForRange(0, Lband, 2)
           Kd == r.K - c.K
           Ks == r.K + c.K
       IN { [L |-> Ls[i], k |-> Kd] : i \in {j \in 1..Len(Ls) : Kd >= -Ls[j]} }
          \cup { [L |-> Ls[i], k |-> Ks] : i \in {j \in 1..Len(Ls) : Ks <= Ls[j]} }
  ELSE {}

\* C16 (as claimed): with a potential present, every read of xlk for a
\* visited pair has a rank 0 <= L <= Diff.maxL and a column offset
\* 0 <= k+L <= 2*Diff.maxL, whatever the truncation rank maxL >= 0.
C16_XlkReadsInTable ==
  (BodyRan /\ Potential(Diff)) =>
    \A rd \in XlkReads(Diff, row, col) :
      /\ 0 <= rd.L /\ rd.L <= Diff.maxL
      /\ 0 <= rd.k + rd.L /\ rd.k + rd.L <= 2 * Diff.maxL

\* A read of xlk for the pair (row, col) was outside the table.
XlkReadOutside ==
  /\ BodyRan /\ Potential(Diff)
  /\ \E rd \in XlkReads(Diff, row, col) :
       ~InBounds(Diff.xlk, (rd.k + rd.L) * (Diff.maxL + 1) + rd.L)

\* With maxL = Lband every read of xlk is inside the table.
XlkReadsInTableRank8 ==
  (BodyRan /\ Diff.maxL = Lband) =>
    \A rd \in XlkReads(Diff, row, col) :
      /\ rd.L \in 0..Diff.maxL /\ rd.k + rd.L \in 0..(2 * Diff.maxL)
      /\ InBounds(Diff.xlk, (rd.k + rd.L) * (Diff.maxL + 1) + rd.L)

\* C17: upper-triangle traversal.  Before each body the column index is at
\* least the row index, and diagRC is true exactly for the diagonal pair
\* (iCol = iRow, column tuple equal to the row tuple); every row starts with
\* that pair.  After each body, the pair just visited was mirrored (two
\* stores) only if it was strictly upper, and every stored strictly-upper
\* pair was mirrored.
C17_UpperTriangle ==
  /\ (pc = "col" /\ cols # << >>) =>
       /\ iCol >= iRow
       /\ diagRC <=> (iCol = iRow)
       /\ diagRC <=> (Head(cols) = row)
  /\ (pc = "col" /\ diagRC) => (cols # << >> /\ iCol = iRow)
  /\ Visited =>
       /\ (col = row) <=> (iCol - 1 = iRow)
       /\ ~diagRC
       /\ stores # << >> => Len(stores) = (IF iCol - 1 > iRow THEN 2 ELSE 1)
  /\ (pc = "idle" /\ outcome = "error" /\ err = ErrElements) =>
       /\ iCol >= iRow
       /\ (col = row) <=> (iCol = iRow)
       /\ diagRC <=> (iCol = iRow)
       /\ Len(stores) = (IF iCol > iRow THEN 2 ELSE 1)

\* In a row after the first, a strictly-upper pair was stored and mirrored.
C17_Witness ==
  /\ Visited /\ iRow > 0 /\ iCol - 1 > iRow
  /\ Len(stores) = 2 /\ col # row

\* The coordinate of stored entry k, ordered as the body emits them: by the
\* row and column of the upper pair, the mirrored entry after its original.
EntryKey(k) ==
  IF ridx[k] <= cidx[k] THEN << ridx[k], cidx[k], 0 >> ELSE << cidx[k], ridx[k], 1 >>

KeyLess(a, b) ==
  \/ a[1] < b[1]
  \/ a[1] = b[1] /\ a[2] < b[2]
  \/ a[1] = b[1] /\ a[2] = b[2] /\ a[3] < b[3]

\* C18: in every state of makematrix(), no two stored entries have the same
\* (row index, column index), and every stored row and column index is in
\* 0..N-1, N being the value BasisSize() returned for the call.  The
\* coordinates of the stored entries are strictly increasing in the order of
\* emission, so no two are equal; for the matrix handed back the entries are
\* also compared pair by pair.
C18_CoordinatesUnique ==
  pc \in {"col", "rowsdone", "made", "idle", "crashed"} =>
    /\ \A k \in Entries : k < Len(ridx) => KeyLess(EntryKey(k), EntryKey(k + 1))
    /\ \A k \in Entries : ridx[k] \in 0..(N - 1) /\ cidx[k] \in 0..(N - 1)
    /\ Len(cidx) = Len(ridx)
    /\ pc = "made" =>
         \A j, k \in Entries : j # k => << ridx[j], cidx[j] >> # << ridx[k], cidx[k] >>

\* A completed matrix with a mirrored entry in a row after the first.
C18_Witness ==
  /\ pc = "made" /\ N > 1
  /\ \E k \in Entries : ridx[k] > cidx[k] /\ cidx[k] > 0

(***************************************************************************)
(* Sequences of calls in one host process.                                 *)
(***************************************************************************)
MaxCalls == 3

\* A call whose buffers hold its matrix, the same call with maxElements = 2,
\* and a call for another system and truncation.
SeqArgs ==
  { CallArgs(SysEZ, BasisOpts(2, 0, 0, 0, 1, 0, 1, 0, 0, 0), DiffIso(4),
             Alloc(cap, BigCap), 0) : cap \in {2, BigCap} }
  \cup { CallArgs(SysHF, BasisOpts(0, 0, 0, 0, 1, 0, 1, 0, 1, 0), DiffExchange,
                  Alloc(BigCap, 1), 0) }

NextCalls ==
  \/ MexCallJjj(MaxCalls)
  \/ MexCallBadArity(MaxCalls)
  \/ MexParse(SeqArgs, MaxCalls)
  \/ MexBasisSize
  \/ MakeMatrixEnter
  \/ PairBody
  \/ RowEnd
  \/ MakeMatrixExit
  \/ MexReturn

SpecCalls == Init /\ [][NextCalls]_vars

\* A call with 4 inputs and 5 outputs, after the first of the process, has
\* ended: returned, aborted, or taken the process down.
LaterCallEnded ==
  /\ calls >= 2 /\ nrhs = 4 /\ nlhs = 5
  /\ pc \in {"idle", "crashed"}

\* The buffers of the current call hold its whole matrix, so that the call
\* stores nothing outside them.
CapacitySuffices == prhs.A.maxElements > NonzeroEntries

GlobalsFromCurrentCall ==
  /\ pc \in {"parsed", "alloc", "col", "rowsdone", "made"} =>
       /\ Sys = prhs.S /\ Basis = prhs.B /\ Diff = prhs.D
       /\ maxElements = prhs.A.maxElements
  /\ pc \in {"alloc", "col", "rowsdone", "made"} =>
       /\ N = BasisSize(prhs.B, prhs.S) /\ maxRows = N + 1
       /\ bufLen = prhs.A.maxElements

\* Without damage to the host's heap, a later call has the outcome of the
\* same call made first.
NoLeakOnSoundHeap ==
  (LaterCallEnded /\ first.nrhs = 4 /\ first.nlhs = 5 /\ first.prhs = prhs
     /\ heap = "ok") =>
    Result = first.result

====
